---- MODULE Spec2Model ----
(***************************************************************************)
(* SensitiveData<T> (src/src/lib.rs): a page-aligned, memory-locked region *)
(* holding one T, kept PROT_NONE except while guards dereference it.       *)
(*                                                                         *)
(* The model follows one container through construction (new / new_zeroed),*)
(* its guards (DerefHolder, DerefMutHolder) and destruction (Drop).  The   *)
(* handlers of DerefHolder are split at their atomic operations (swap,     *)
(* fetch_add, fetch_sub, mprotect), since these are the points at which    *)
(* guards used on different threads interleave.                            *)
(***************************************************************************)
EXTENDS Integers, Sequences, FiniteSets, TLC

VARIABLES
  cpc,                  \* position of the owner in the container's life cycle
  ctor,                 \* <<"new", v>> or <<"new_zeroed">>; <<>> before construction
  ctor_log,             \* primitives executed by the constructor, in order
  mem,                  \* the bytes of the allocated region (memory_layout.size() of them)
  prot,                 \* page protection of the region as the OS holds it
  locked,               \* mlock succeeded on the region
  deref_counter,        \* SensitiveData::deref_counter
  rpc,                  \* per DerefHolder: position in borrow / deref / drop
  changed_permissions,  \* DerefHolder::changed_permissions
  mut_holder,           \* the DerefMutHolder: "none", or its most recent dereference
  syscall,              \* protection call issued by the most recent step ("none" if none)
  observed,             \* value most recently read through a DerefHolder
  fault,                \* a read hit PROT_NONE pages (SIGSEGV)
  mutated,              \* some DerefMutHolder has been dereferenced mutably
  dpc,                  \* next statement of Drop for SensitiveData
  drop_log,             \* primitives executed by Drop for SensitiveData, in order
  teardowns,            \* number of times T's own drop has run
  seen_at_drop,         \* the bytes of the value as T's drop saw them
  outcome,              \* what the constructor call came to ("none" while it runs)
  panic,                \* a guard's .expect(..) failed: "none", "unwind" or "abort"
  arg_drops,            \* number of times T's own drop has run on the argument of new
  layout_call           \* arguments and result of the most recent Self::layout()

vars == <<cpc, ctor, ctor_log, mem, prot, locked, deref_counter, rpc,
          changed_permissions, mut_holder, syscall, observed, fault, mutated,
          dpc, drop_log, teardowns, seen_at_drop, outcome, panic, arg_drops,
          layout_call>>

----------------------------------------------------------------------------
(* Bounds of the model *)

NumGuards == 2          \* DerefHolders that may exist at the same time
MaxByte   == 1          \* bytes range over 0..MaxByte

(* The wrapped type and the platform: T is one byte wide, as SomeTestStruct *)
(* of the tests, on pages of two bytes, so that the region holds the value *)
(* and one byte of page padding.                                           *)
SizeOfT   == 1          \* size_of::<HolderInner<T>>()
AlignOfT  == 1          \* align_of::<HolderInner<T>>()
PageSize  == 2          \* page_size()

Guards == 1..NumGuards
Bytes  == 0..MaxByte
Values == [1..SizeOfT -> Bytes]
NoValue == <<>>
ZeroValue == [i \in 1..SizeOfT |-> 0]

----------------------------------------------------------------------------
(* Layout *)

Max(a, b) == IF a >= b THEN a ELSE b

IsPowerOfTwo(n) == n \in {1, 2, 4, 8, 16, 32, 64}

RoundUp_down(n, a) == (n \div a) * a

RoundUp(n, a) == ((n + a - 1) \div a) * a

\* isize::MAX, at the scale of the model (a 7-bit isize)
ISIZE_MAX == 63

\* Layout::new::<T>().align_to(page_size())?.pad_to_align()
\* align_to is Layout::from_size_align(size, max(align, page)): the alignment
\* must be a power of two and the size, rounded up to it, must not exceed
\* isize::MAX.
layout(size, align, page) ==
  LET new_align == Max(align, page) IN
    IF ~IsPowerOfTwo(new_align) \/ size > ISIZE_MAX - (new_align - 1)
      THEN [err |-> "LayoutError"]
      ELSE [size |-> RoundUp(size, new_align), align |-> new_align]

LayoutFails(size, align, page) == "err" \in DOMAIN layout(size, align, page)

\* A call of Self::layout() with what it returned
LayoutCall(size, align, page) ==
  [called |-> TRUE, size |-> size, align |-> align, page |-> page,
   out |-> layout(size, align, page)]

memory_layout == layout(SizeOfT, AlignOfT, PageSize)

Regions == [1..memory_layout.size -> Bytes]

----------------------------------------------------------------------------
(* Storage *)

\* &(*inner_ptr).value : the first size_of::<T>() bytes of the region
value(m) == [i \in 1..SizeOfT |-> m[i]]

\* std::ptr::write(inner_ptr, HolderInner { value: t, .. }), and a store through &mut T
ptr_write(m, v) == [i \in 1..Len(m) |-> IF i <= SizeOfT THEN v[i] ELSE m[i]]

\* Mutant of zeroize_inner: the volatile write is lost
zeroize_inner_skipped(m) == m

\* write_volatile(self.inner_ptr, zeroed()): one HolderInner<T> worth of zero bytes
zeroize_inner(m) == [i \in 1..Len(m) |-> IF i <= SizeOfT THEN 0 ELSE m[i]]

\* mprotect modes
PROT_NONE == "None"
PROT_READ == "R"
PROT_READ_WRITE == "RW"

\* The protection the region has after each of the three mprotect wrappers
make_inaccessible == PROT_NONE
make_readable == PROT_READ
make_writable == PROT_READ_WRITE

Readable(p) == p \in {PROT_READ, PROT_READ_WRITE}

----------------------------------------------------------------------------
\* Everything but the layout: nothing is allocated, no guard exists
InitObjects ==
  /\ cpc = "start"
  /\ ctor = <<>>
  /\ ctor_log = <<>>
  /\ mem = <<>>
  /\ prot = "Unmapped"
  /\ locked = FALSE
  /\ deref_counter = 0
  /\ rpc = [g \in Guards |-> "none"]
  /\ changed_permissions = [g \in Guards |-> FALSE]
  /\ mut_holder = "none"
  /\ syscall = "none"
  /\ observed = NoValue
  /\ fault = FALSE
  /\ mutated = FALSE
  /\ dpc = 1
  /\ drop_log = <<>>
  /\ teardowns = 0
  /\ seen_at_drop = NoValue
  /\ outcome = "none"
  /\ panic = "none"
  /\ arg_drops = 0

Init == InitObjects /\ layout_call = [called |-> FALSE]

\* The process is alive: no SIGSEGV, no abort
Running == ~fault /\ panic # "abort"

NoGuards == mut_holder = "none" /\ \A g \in Guards : rpc[g] = "none"

Range(seq) == {seq[i] : i \in 1..Len(seq)}

----------------------------------------------------------------------------
(* Construction: new_holder, then new or new_zeroed *)

\* new_holder: alloc(memory_layout).  Fresh heap memory is read-write and
\* holds whatever the allocator left there.
NewHolderAlloc(c, garbage) ==
  /\ Running /\ cpc = "start"
  /\ ~LayoutFails(SizeOfT, AlignOfT, PageSize)
  /\ layout_call' = LayoutCall(SizeOfT, AlignOfT, PageSize)
  /\ ctor' = c
  /\ mem' = garbage
  /\ prot' = PROT_READ_WRITE
  /\ deref_counter' = 0
  /\ ctor_log' = Append(ctor_log, "alloc")
  /\ cpc' = "allocated"
  /\ syscall' = "none"
  /\ UNCHANGED <<locked, rpc, changed_permissions, mut_holder, observed, fault,
                 mutated, dpc, drop_log, teardowns, seen_at_drop,
                 outcome, panic, arg_drops>>

lock_memory_skipped == locked

\* lock_memory: libc::mlock(inner_ptr, size) == 0, the region is locked
lock_memory == TRUE

\* new_holder: data.lock_memory()?  succeeds (never on a null pointer)
LockMemory ==
  /\ Running /\ cpc = "allocated"
  /\ prot # "Unmapped"
  /\ locked' = lock_memory
  /\ ctor_log' = Append(ctor_log, "mlock")
  /\ cpc' = "locked"
  /\ syscall' = "none"
  /\ UNCHANGED <<ctor, mem, prot, deref_counter, rpc, changed_permissions,
                 mut_holder, observed, fault, mutated, dpc, drop_log, teardowns,
                 seen_at_drop,
                 outcome, panic, arg_drops, layout_call>>

\* new: std::ptr::write(holder.inner_ptr, HolderInner { value: t, .. })
NewWrite ==
  /\ Running /\ cpc = "locked" /\ ctor[1] = "new"
  /\ mem' = ptr_write(mem, ctor[2])
  /\ ctor_log' = Append(ctor_log, "write")
  /\ cpc' = "written"
  /\ syscall' = "none"
  /\ UNCHANGED <<ctor, prot, locked, deref_counter, rpc, changed_permissions,
                 mut_holder, observed, fault, mutated, dpc, drop_log, teardowns,
                 seen_at_drop,
                 outcome, panic, arg_drops, layout_call>>

\* new_zeroed: holder.zeroize_inner()
NewZeroedZeroize ==
  /\ Running /\ cpc = "locked" /\ ctor[1] = "new_zeroed"
  /\ mem' = zeroize_inner(mem)
  /\ ctor_log' = Append(ctor_log, "zeroize_inner")
  /\ cpc' = "written"
  /\ syscall' = "none"
  /\ UNCHANGED <<ctor, prot, locked, deref_counter, rpc, changed_permissions,
                 mut_holder, observed, fault, mutated, dpc, drop_log, teardowns,
                 seen_at_drop,
                 outcome, panic, arg_drops, layout_call>>

\* new / new_zeroed: holder.make_inaccessible().expect(..); Ok(holder)
NewMakeInaccessible ==
  /\ Running /\ cpc = "written"
  /\ prot' = make_inaccessible
  /\ syscall' = "make_inaccessible"
  /\ ctor_log' = Append(ctor_log, "make_inaccessible")
  /\ cpc' = "live"
  /\ outcome' = "Ok"
  /\ UNCHANGED <<ctor, mem, locked, deref_counter, rpc, changed_permissions,
                 mut_holder, observed, fault, mutated, dpc, drop_log, teardowns,
                 seen_at_drop, panic, arg_drops, layout_call>>

----------------------------------------------------------------------------
(* DerefHolder: the shared read guard *)

\* Mutant of first_reader: compares with the value after the increment
first_reader_post(old) == old = 1

\* fetch_add(1, AcqRel) == 0 : this increment took the counter from 0 to 1
first_reader(old) == old = 0

\* Mutant of last_reader: compares with the value after the decrement
last_reader_post(old) == old = 0

\* fetch_sub(1, AcqRel) == 1 : this decrement took the counter from 1 to 0
last_reader(old) == old = 1

\* Mutant of drop_decrements: drop decrements without looking at the flag
drop_decrements_always(flag) == TRUE

\* What Drop for DerefHolder does to the counter: only a guard that has set
\* changed_permissions decrements it
drop_decrements(flag) == flag

\* borrow(&self): needs a shared reference, so no DerefMutHolder is alive
borrow(g) ==
  /\ Running /\ cpc = "live" /\ mut_holder = "none"
  /\ rpc[g] = "none"
  /\ rpc' = [rpc EXCEPT ![g] = "idle"]
  /\ changed_permissions' = [changed_permissions EXCEPT ![g] = FALSE]
  /\ syscall' = "none"
  /\ UNCHANGED <<cpc, ctor, ctor_log, mem, prot, locked, deref_counter,
                 mut_holder, observed, fault, mutated, dpc, drop_log, teardowns,
                 seen_at_drop,
                 outcome, panic, arg_drops, layout_call>>

\* Mutant of DerefSwap: the flag is not consulted, every dereference registers
DerefSwap_always_first(g) ==
  /\ Running /\ rpc[g] = "idle"
  /\ changed_permissions' = [changed_permissions EXCEPT ![g] = TRUE]
  /\ rpc' = [rpc EXCEPT ![g] = "deref_add"]
  /\ syscall' = "none"
  /\ UNCHANGED <<cpc, ctor, ctor_log, mem, prot, locked, deref_counter,
                 mut_holder, observed, fault, mutated, dpc, drop_log, teardowns,
                 seen_at_drop,
                 outcome, panic, arg_drops, layout_call>>

\* deref: changed_permissions.swap(true, AcqRel)
DerefSwap(g) ==
  /\ Running /\ rpc[g] = "idle"
  /\ changed_permissions' = [changed_permissions EXCEPT ![g] = TRUE]
  /\ rpc' = [rpc EXCEPT ![g] = IF changed_permissions[g] THEN "deref_ref"
                                                         ELSE "deref_add"]
  /\ syscall' = "none"
  /\ UNCHANGED <<cpc, ctor, ctor_log, mem, prot, locked, deref_counter,
                 mut_holder, observed, fault, mutated, dpc, drop_log, teardowns,
                 seen_at_drop,
                 outcome, panic, arg_drops, layout_call>>

\* deref: deref_counter.fetch_add(1, AcqRel) == 0
DerefFetchAdd(g) ==
  /\ Running /\ rpc[g] = "deref_add"
  /\ deref_counter' = deref_counter + 1
  /\ rpc' = [rpc EXCEPT ![g] = IF first_reader(deref_counter) THEN "deref_prot"
                                                              ELSE "deref_ref"]
  /\ syscall' = "none"
  /\ UNCHANGED <<cpc, ctor, ctor_log, mem, prot, locked, changed_permissions,
                 mut_holder, observed, fault, mutated, dpc, drop_log, teardowns,
                 seen_at_drop,
                 outcome, panic, arg_drops, layout_call>>

\* deref: holder.make_readable().expect(..)
DerefMakeReadable(g) ==
  /\ Running /\ rpc[g] = "deref_prot"
  /\ prot' = make_readable
  /\ syscall' = "make_readable"
  /\ rpc' = [rpc EXCEPT ![g] = "deref_ref"]
  /\ UNCHANGED <<cpc, ctor, ctor_log, mem, locked, deref_counter,
                 changed_permissions, mut_holder, observed, fault, mutated, dpc,
                 drop_log, teardowns, seen_at_drop,
                 outcome, panic, arg_drops, layout_call>>

\* The caller reads through the reference deref returned,
\* &(*holder.inner_ptr).value; reading PROT_NONE pages faults.
DerefRead(g) ==
  /\ Running /\ rpc[g] = "deref_ref"
  /\ IF Readable(prot)
       THEN observed' = value(mem) /\ UNCHANGED fault
       ELSE fault' = TRUE /\ UNCHANGED observed
  /\ rpc' = [rpc EXCEPT ![g] = "idle"]
  /\ syscall' = "none"
  /\ UNCHANGED <<cpc, ctor, ctor_log, mem, prot, locked, deref_counter,
                 changed_permissions, mut_holder, mutated, dpc, drop_log,
                 teardowns, seen_at_drop,
                 outcome, panic, arg_drops, layout_call>>

\* drop: if changed_permissions.load(Acquire) { deref_counter.fetch_sub(1, AcqRel) == 1 }
\* The flag belongs to this guard alone, so the load and the fetch_sub are one step.
DropFetchSub(g) ==
  /\ Running /\ rpc[g] = "idle"
  /\ IF drop_decrements(changed_permissions[g])
       THEN /\ deref_counter' = deref_counter - 1
            /\ rpc' = [rpc EXCEPT ![g] = IF last_reader(deref_counter)
                                            THEN "drop_prot" ELSE "none"]
       ELSE /\ rpc' = [rpc EXCEPT ![g] = "none"]
            /\ UNCHANGED deref_counter
  /\ syscall' = "none"
  /\ UNCHANGED <<cpc, ctor, ctor_log, mem, prot, locked, changed_permissions,
                 mut_holder, observed, fault, mutated, dpc, drop_log, teardowns,
                 seen_at_drop,
                 outcome, panic, arg_drops, layout_call>>

\* drop: holder.make_inaccessible().expect(..)
DropMakeInaccessible(g) ==
  /\ Running /\ rpc[g] = "drop_prot"
  /\ prot' = make_inaccessible
  /\ syscall' = "make_inaccessible"
  /\ rpc' = [rpc EXCEPT ![g] = "none"]
  /\ UNCHANGED <<cpc, ctor, ctor_log, mem, locked, deref_counter,
                 changed_permissions, mut_holder, observed, fault, mutated, dpc,
                 drop_log, teardowns, seen_at_drop,
                 outcome, panic, arg_drops, layout_call>>

----------------------------------------------------------------------------
(* DerefMutHolder: the exclusive write guard *)

\* borrow_mut(&mut self): needs the exclusive reference, so no guard is alive
borrow_mut ==
  /\ Running /\ cpc = "live" /\ NoGuards
  /\ mut_holder' = "new"
  /\ syscall' = "none"
  /\ UNCHANGED <<cpc, ctor, ctor_log, mem, prot, locked, deref_counter, rpc,
                 changed_permissions, observed, fault, mutated, dpc, drop_log,
                 teardowns, seen_at_drop,
                 outcome, panic, arg_drops, layout_call>>

\* Mutant of MutDeref: no readable step once the storage is writable
MutDeref_keeps_writable ==
  /\ Running /\ mut_holder # "none"
  /\ prot' = IF prot = PROT_READ_WRITE THEN prot ELSE make_readable
  /\ syscall' = IF prot = PROT_READ_WRITE THEN "none" ELSE "make_readable"
  /\ mut_holder' = "deref"
  /\ UNCHANGED <<cpc, ctor, ctor_log, mem, locked, deref_counter, rpc,
                 changed_permissions, observed, fault, mutated, dpc, drop_log,
                 teardowns, seen_at_drop,
                 outcome, panic, arg_drops, layout_call>>

\* Deref for DerefMutHolder: make_readable().expect(..), on every call
MutDeref ==
  /\ Running /\ mut_holder # "none"
  /\ prot' = make_readable
  /\ syscall' = "make_readable"
  /\ mut_holder' = "deref"
  /\ UNCHANGED <<cpc, ctor, ctor_log, mem, locked, deref_counter, rpc,
                 changed_permissions, observed, fault, mutated, dpc, drop_log,
                 teardowns, seen_at_drop,
                 outcome, panic, arg_drops, layout_call>>

\* DerefMut for DerefMutHolder: make_writable().expect(..), then the caller
\* stores w through the &mut T (a.borrow_mut().field = w)
MutDerefMut(w) ==
  /\ Running /\ mut_holder # "none"
  /\ prot' = make_writable
  /\ syscall' = "make_writable"
  /\ mem' = ptr_write(mem, w)
  /\ mutated' = TRUE
  /\ mut_holder' = "deref_mut"
  /\ UNCHANGED <<cpc, ctor, ctor_log, locked, deref_counter, rpc,
                 changed_permissions, observed, fault, dpc, drop_log, teardowns,
                 seen_at_drop,
                 outcome, panic, arg_drops, layout_call>>

\* Mutant of MutDrop: the guard goes away without make_inaccessible
MutDrop_no_protect ==
  /\ Running /\ mut_holder # "none"
  /\ syscall' = "none"
  /\ mut_holder' = "none"
  /\ UNCHANGED <<cpc, ctor, ctor_log, mem, prot, locked, deref_counter, rpc,
                 changed_permissions, observed, fault, mutated, dpc, drop_log,
                 teardowns, seen_at_drop,
                 outcome, panic, arg_drops, layout_call>>

\* Mutant of MutDrop: the guard's drop also drops the value it points to
MutDrop_drops_value ==
  /\ Running /\ mut_holder # "none"
  /\ prot' = make_inaccessible
  /\ syscall' = "make_inaccessible"
  /\ mut_holder' = "none"
  /\ teardowns' = teardowns + 1
  /\ seen_at_drop' = value(mem)
  /\ UNCHANGED <<cpc, ctor, ctor_log, mem, locked, deref_counter, rpc,
                 changed_permissions, observed, fault, mutated, dpc, drop_log,
                 outcome, panic, arg_drops, layout_call>>

\* Drop for DerefMutHolder: make_inaccessible().expect(..), unconditionally
MutDrop ==
  /\ Running /\ mut_holder # "none"
  /\ prot' = make_inaccessible
  /\ syscall' = "make_inaccessible"
  /\ mut_holder' = "none"
  /\ UNCHANGED <<cpc, ctor, ctor_log, mem, locked, deref_counter, rpc,
                 changed_permissions, observed, fault, mutated, dpc, drop_log,
                 teardowns, seen_at_drop,
                 outcome, panic, arg_drops, layout_call>>

----------------------------------------------------------------------------
(* Drop for SensitiveData *)

\* Mutant of drop_statement: the region is zeroized before the value is dropped
drop_statement_zero_first(i) ==
  CASE i = 1 -> "make_writable"
    [] i = 2 -> "zeroize_inner"
    [] i = 3 -> "drop_in_place"
    [] i = 4 -> "dealloc"

\* The statements of drop, in program order
drop_statement(i) ==
  CASE i = 1 -> "make_writable"
    [] i = 2 -> "drop_in_place"
    [] i = 3 -> "zeroize_inner"
    [] i = 4 -> "dealloc"

DropLength == 4

\* The constructor is still running and leaves on its error path: new_holder
\* returns on the `?` of lock_memory, which drops `data`
ReturningErr == outcome = "none" /\ "mlock_failed" \in Range(ctor_log)

\* One statement of drop(&mut self).  The container is dropped by its owner,
\* so no guard borrows it; or it is dropped inside the constructor, when
\* new_holder leaves on `?` or the constructor unwinds.  When the last
\* statement has run inside the constructor, the constructor is left: with
\* Err(IoError), dropping the argument t of new that was never moved into
\* the storage, or with the panic that is unwinding.
DropSensitiveData ==
  /\ Running /\ cpc \in {"live", "dropping"} /\ NoGuards
  /\ dpc <= DropLength
  /\ dpc = 1 => prot # "Unmapped"
  /\ LET st == drop_statement(dpc) IN
       /\ drop_log' = Append(drop_log, st)
       /\ prot' = IF st = "make_writable" THEN make_writable ELSE prot
       /\ syscall' = IF st = "make_writable" THEN "make_writable" ELSE "none"
       /\ teardowns' = IF st = "drop_in_place" THEN teardowns + 1 ELSE teardowns
       /\ seen_at_drop' = IF st = "drop_in_place" THEN value(mem) ELSE seen_at_drop
       /\ mem' = IF st = "zeroize_inner" THEN zeroize_inner(mem) ELSE mem
       /\ fault' = (st \in {"drop_in_place", "zeroize_inner"}
                      /\ prot # PROT_READ_WRITE)
  /\ dpc' = dpc + 1
  /\ cpc' = IF dpc < DropLength THEN "dropping"
            ELSE IF outcome = "none" THEN "returned" ELSE "freed"
  /\ outcome' = IF dpc = DropLength /\ outcome = "none"
                  THEN (IF ReturningErr THEN "Err(IoError)" ELSE "panic")
                  ELSE outcome
  /\ arg_drops' = IF dpc = DropLength /\ ReturningErr /\ ctor[1] = "new"
                    THEN arg_drops + 1 ELSE arg_drops
  /\ UNCHANGED <<ctor, ctor_log, locked, deref_counter, rpc,
                 changed_permissions, mut_holder, observed, mutated,
                 panic, layout_call>>

----------------------------------------------------------------------------
Constructors == {<<"new", v>> : v \in Values} \cup {<<"new_zeroed">>}

Lifecycle ==
  \/ \E c \in Constructors, garbage \in Regions : NewHolderAlloc(c, garbage)
  \/ LockMemory
  \/ NewWrite
  \/ NewZeroedZeroize
  \/ NewMakeInaccessible
  \/ borrow_mut
  \/ MutDeref
  \/ \E w \in Values : MutDerefMut(w)
  \/ MutDrop
  \/ DropSensitiveData

Next ==
  \/ Lifecycle
  \/ \E g \in Guards :
        \/ borrow(g)
        \/ DerefSwap(g)
        \/ DerefFetchAdd(g)
        \/ DerefMakeReadable(g)
        \/ DerefRead(g)
        \/ DropFetchSub(g)
        \/ DropMakeInaccessible(g)

\* Guards used on any threads: every interleaving of their atomic steps
Spec == Init /\ [][Next]_vars

\* A guard inside deref or drop, between two of its atomic steps
MidOperation(g) == rpc[g] \in {"deref_add", "deref_prot", "drop_prot"}

\* No other guard is inside an operation
Solo(g) == \A h \in Guards \ {g} : ~MidOperation(h)

SeqNext ==
  \/ Lifecycle
  \/ \E g \in Guards :
        /\ Solo(g)
        /\ \/ borrow(g)
           \/ DerefSwap(g)
           \/ DerefFetchAdd(g)
           \/ DerefMakeReadable(g)
           \/ DerefRead(g)
           \/ DropFetchSub(g)
           \/ DropMakeInaccessible(g)

\* Guards used one operation at a time (the container and its guards on one
\* thread): deref and drop run to completion before the next operation starts
SeqSpec == Init /\ [][SeqNext]_vars

----------------------------------------------------------------------------
(* Failures: the layout, the allocator and the OS calls may fail *)

\* What page_size() may return: the page size of the model's platform, or
\* one for which the layout of T cannot be computed
PlatformPages ==
  {PageSize} \cup {p \in 1..(ISIZE_MAX + 1) : LayoutFails(SizeOfT, AlignOfT, p)}

layout_error_panics == "panic"

\* Self::layout()? with From<LayoutError> for Error
layout_error_outcome == "Err(LayoutError)"

\* What becomes of a thread whose .expect(..) panics: the build unwinds
\* (other threads go on, a caller may catch the panic) or aborts
PanicStrategies == {"unwind", "abort"}

\* new_holder: let memory_layout = Self::layout()?  fails.  The constructor
\* returns at once; new drops its argument t.
NewHolderLayoutError(c, page) ==
  /\ Running /\ cpc = "start"
  /\ LayoutFails(SizeOfT, AlignOfT, page)
  /\ layout_call' = LayoutCall(SizeOfT, AlignOfT, page)
  /\ ctor' = c
  /\ outcome' = layout_error_outcome
  /\ arg_drops' = IF c[1] = "new" THEN arg_drops + 1 ELSE arg_drops
  /\ cpc' = "returned"
  /\ syscall' = "none"
  /\ UNCHANGED <<ctor_log, mem, prot, locked, deref_counter, rpc,
                 changed_permissions, mut_holder, observed, fault, mutated, dpc,
                 drop_log, teardowns, seen_at_drop, panic>>

\* new_holder: alloc(memory_layout) returns null; the result is not checked
NewHolderAllocNull(c) ==
  /\ Running /\ cpc = "start"
  /\ ~LayoutFails(SizeOfT, AlignOfT, PageSize)
  /\ layout_call' = LayoutCall(SizeOfT, AlignOfT, PageSize)
  /\ ctor' = c
  /\ deref_counter' = 0
  /\ ctor_log' = Append(ctor_log, "alloc_null")
  /\ cpc' = "allocated"
  /\ syscall' = "none"
  /\ UNCHANGED <<mem, prot, locked, rpc, changed_permissions, mut_holder,
                 observed, fault, mutated, dpc, drop_log, teardowns,
                 seen_at_drop, outcome, panic, arg_drops>>

\* new_holder: data.lock_memory()? fails (always, on a null pointer): the
\* function returns Err, and `data` goes out of scope, so Drop for
\* SensitiveData runs on it
LockMemoryFails ==
  /\ Running /\ cpc = "allocated"
  /\ ctor_log' = Append(ctor_log, "mlock_failed")
  /\ cpc' = "dropping"
  /\ syscall' = "none"
  /\ UNCHANGED <<ctor, mem, prot, locked, deref_counter, rpc,
                 changed_permissions, mut_holder, observed, fault, mutated, dpc,
                 drop_log, teardowns, seen_at_drop, outcome, panic, arg_drops,
                 layout_call>>

\* new / new_zeroed: holder.make_inaccessible().expect(..) panics.  An
\* aborting build ends here; an unwinding one drops `holder` on the way out.
NewMakeInaccessibleFails(strategy) ==
  /\ Running /\ cpc = "written"
  /\ ctor_log' = Append(ctor_log, "make_inaccessible_failed")
  /\ syscall' = "make_inaccessible"
  /\ IF strategy = "abort"
       THEN outcome' = "panic" /\ cpc' = "returned"
       ELSE cpc' = "dropping" /\ UNCHANGED outcome
  /\ UNCHANGED <<ctor, mem, prot, locked, deref_counter, rpc,
                 changed_permissions, mut_holder, observed, fault, mutated, dpc,
                 drop_log, teardowns, seen_at_drop, panic, arg_drops,
                 layout_call>>

\* Drop for SensitiveData: self.make_writable().expect(..) panics (always, on
\* a null pointer); the region is neither zeroized nor deallocated, and the
\* container is gone with the owner's frame.  Inside the constructor the
\* panic is the constructor's outcome.
DropMakeWritableFails(strategy) ==
  /\ Running /\ cpc \in {"live", "dropping"} /\ NoGuards
  /\ dpc = 1
  /\ drop_log' = Append(drop_log, "make_writable_failed")
  /\ syscall' = "make_writable"
  /\ dpc' = DropLength + 1
  /\ IF outcome = "none"
       THEN /\ outcome' = "panic"
            /\ cpc' = "returned"
            /\ arg_drops' = IF strategy = "unwind" /\ ReturningErr
                                /\ ctor[1] = "new"
                              THEN arg_drops + 1 ELSE arg_drops
       ELSE /\ cpc' = "leaked"
            /\ UNCHANGED <<outcome, arg_drops>>
  /\ UNCHANGED <<panic, ctor, ctor_log, mem, prot, locked, deref_counter, rpc,
                 changed_permissions, mut_holder, observed, fault, mutated,
                 teardowns, seen_at_drop, layout_call>>

\* DerefHolder::deref: make_readable().expect(..) panics.  No reference is
\* returned; the guard stays as it is, with its flag set and counted.
DerefMakeReadableFails(g, strategy) ==
  /\ Running /\ rpc[g] = "deref_prot"
  /\ panic' = strategy
  /\ syscall' = "make_readable"
  /\ rpc' = [rpc EXCEPT ![g] = "idle"]
  /\ UNCHANGED <<cpc, ctor, ctor_log, mem, prot, locked, deref_counter,
                 changed_permissions, mut_holder, observed, fault, mutated, dpc,
                 drop_log, teardowns, seen_at_drop, outcome, arg_drops,
                 layout_call>>

\* Drop for DerefHolder: make_inaccessible().expect(..) panics
DropMakeInaccessibleFails(g, strategy) ==
  /\ Running /\ rpc[g] = "drop_prot"
  /\ panic' = strategy
  /\ syscall' = "make_inaccessible"
  /\ rpc' = [rpc EXCEPT ![g] = "none"]
  /\ UNCHANGED <<cpc, ctor, ctor_log, mem, prot, locked, deref_counter,
                 changed_permissions, mut_holder, observed, fault, mutated, dpc,
                 drop_log, teardowns, seen_at_drop, outcome, arg_drops,
                 layout_call>>

\* Deref for DerefMutHolder: make_readable().expect(..) panics
MutDerefFails(strategy) ==
  /\ Running /\ mut_holder # "none"
  /\ panic' = strategy
  /\ syscall' = "make_readable"
  /\ UNCHANGED <<cpc, ctor, ctor_log, mem, prot, locked, deref_counter, rpc,
                 changed_permissions, mut_holder, observed, fault, mutated, dpc,
                 drop_log, teardowns, seen_at_drop, outcome, arg_drops,
                 layout_call>>

\* DerefMut for DerefMutHolder: make_writable().expect(..) panics
MutDerefMutFails(strategy) ==
  /\ Running /\ mut_holder # "none"
  /\ panic' = strategy
  /\ syscall' = "make_writable"
  /\ UNCHANGED <<cpc, ctor, ctor_log, mem, prot, locked, deref_counter, rpc,
                 changed_permissions, mut_holder, observed, fault, mutated, dpc,
                 drop_log, teardowns, seen_at_drop, outcome, arg_drops,
                 layout_call>>

\* Drop for DerefMutHolder: make_inaccessible().expect(..) panics
MutDropFails(strategy) ==
  /\ Running /\ mut_holder # "none"
  /\ panic' = strategy
  /\ syscall' = "make_inaccessible"
  /\ mut_holder' = "none"
  /\ UNCHANGED <<cpc, ctor, ctor_log, mem, prot, locked, deref_counter, rpc,
                 changed_permissions, observed, fault, mutated, dpc, drop_log,
                 teardowns, seen_at_drop, outcome, arg_drops, layout_call>>

Failures ==
  \/ \E c \in Constructors, page \in PlatformPages : NewHolderLayoutError(c, page)
  \/ \E c \in Constructors : NewHolderAllocNull(c)
  \/ LockMemoryFails
  \/ \E strategy \in PanicStrategies :
        \/ NewMakeInaccessibleFails(strategy)
        \/ DropMakeWritableFails(strategy)
        \/ MutDerefFails(strategy)
        \/ MutDerefMutFails(strategy)
        \/ MutDropFails(strategy)
        \/ \E g \in Guards :
              \/ DerefMakeReadableFails(g, strategy)
              \/ DropMakeInaccessibleFails(g, strategy)

FailNext == SeqNext \/ Failures

\* As SeqSpec, and every fallible call may fail
FailSpec == Init /\ [][FailNext]_vars

----------------------------------------------------------------------------
(* The layout as a function of size_of::<T>(), align_of::<T>(), page_size() *)

MaxSize == 8
MaxAlignLog == 3

Sizes == 0..MaxSize
PowersOfTwo == {2^k : k \in 0..MaxAlignLog}

\* A type T and a platform, Self::layout() not yet called
LayoutInit ==
  /\ InitObjects
  /\ layout_call \in {[called |-> FALSE, size |-> s, align |-> a, page |-> p] :
                         s \in Sizes, a \in PowersOfTwo, p \in PowersOfTwo}

\* Self::layout()
CallLayout ==
  /\ ~layout_call.called /\ "size" \in DOMAIN layout_call
  /\ layout_call' =
       LayoutCall(layout_call.size, layout_call.align, layout_call.page)
  /\ UNCHANGED <<cpc, ctor, ctor_log, mem, prot, locked, deref_counter, rpc,
                 changed_permissions, mut_holder, syscall, observed, fault,
                 mutated, dpc, drop_log, teardowns, seen_at_drop, outcome,
                 panic, arg_drops>>

LayoutSpec == LayoutInit /\ [][CallLayout]_vars

----------------------------------------------------------------------------
(* Vocabulary of the properties *)

\* g has incremented deref_counter and not yet decremented it
RegisteredIn(pcs, flags, g) ==
  flags[g] /\ pcs[g] \in {"idle", "deref_prot", "deref_ref"}

Registered(g) == RegisteredIn(rpc, changed_permissions, g)

\* No guard is inside deref or drop
Quiescent == \A g \in Guards : ~MidOperation(g)

\* g is the only guard of the container
Alone(g) == mut_holder = "none" /\ \A h \in Guards \ {g} : rpc[h] = "none"

Constructed == Len(ctor) > 0

\* The value the constructor put into the container
InitialValue == IF ctor[1] = "new" THEN ctor[2] ELSE ZeroValue

DropOrder == <<"make_writable", "drop_in_place", "zeroize_inner", "dealloc">>

----------------------------------------------------------------------------
(* Abandoned guards *)

MaxLeaks == 1           \* guards abandoned after having registered

\* Increments of deref_counter whose guard was abandoned before its drop
LeakedRegistrations == deref_counter - Cardinality({g \in Guards : Registered(g)})

\* The guard is abandoned (std::mem::forget, a reference cycle): it goes out
\* of use without Drop for DerefHolder ever running
Leak(g) ==
  /\ Running /\ rpc[g] = "idle"
  /\ changed_permissions[g] => LeakedRegistrations < MaxLeaks
  /\ rpc' = [rpc EXCEPT ![g] = "none"]
  /\ syscall' = "none"
  /\ UNCHANGED <<cpc, ctor, ctor_log, mem, prot, locked, deref_counter,
                 changed_permissions, mut_holder, observed, fault, mutated, dpc,
                 drop_log, teardowns, seen_at_drop,
                 outcome, panic, arg_drops, layout_call>>

LeakNext ==
  \/ SeqNext
  \/ \E g \in Guards : Solo(g) /\ Leak(g)

\* Guards used one operation at a time, some of them abandoned without release
LeakSpec == Init /\ [][LeakNext]_vars

----------------------------------------------------------------------------
(* C1: the storage is never switched to Inaccessible while a registered    *)
(* shared read guard (incremented, not yet decremented) is live.           *)
C1_InaccessibleOnlyAfterLastRelease ==
  [][(prot # PROT_NONE /\ prot' = PROT_NONE)
       => \A g \in Guards : ~RegisteredIn(rpc', changed_permissions', g)]_vars

(* C2: no shared read guard reads the storage while it is Inaccessible;    *)
(* a guard whose increment observed a count >= 1 finds it Readable.        *)
C2_NoReadOfInaccessible == fault = FALSE

(* C3: once every guard has been released, reader_count is 0 and the       *)
(* storage is Inaccessible, whatever the interleaving was.                 *)
C3_Converged ==
  (cpc = "live" /\ NoGuards) => (deref_counter = 0 /\ prot = PROT_NONE)

C3_Witness ==
  /\ cpc = "live" /\ NoGuards
  /\ observed # NoValue
  /\ syscall = "make_inaccessible"
  /\ deref_counter = 0 /\ prot = PROT_NONE

C5_DestructionOrder ==
  /\ \E n \in 0..Len(DropOrder) : drop_log = SubSeq(DropOrder, 1, n)
  /\ cpc = "freed" => drop_log = DropOrder
  /\ cpc = "dropping" => prot = PROT_READ_WRITE
  /\ (teardowns > 0 /\ Len(drop_log) = 2) => seen_at_drop = value(mem)
  /\ cpc \in {"dropping", "freed"} => ~fault

C5_Witness ==
  /\ cpc = "freed" /\ drop_log = DropOrder
  /\ seen_at_drop # NoValue /\ seen_at_drop # ZeroValue
  /\ value(mem) = ZeroValue

(* C6: when the region is handed back to the allocator, every one of its   *)
(* layout.size bytes is zero.                                              *)
C6_WholeRegionZeroed ==
  cpc = "freed" => \A i \in 1..Len(mem) : mem[i] = 0

(* C7: the wrapped value's teardown runs zero times before the container   *)
(* is destroyed and exactly once during its destruction; no guard          *)
(* operation runs it.                                                      *)
C7_TeardownOnce ==
  /\ cpc \notin {"dropping", "freed"} => teardowns = 0
  /\ cpc = "dropping" => teardowns = (IF Len(drop_log) >= 2 THEN 1 ELSE 0)
  /\ cpc = "freed" => teardowns = 1

C7_Witness ==
  /\ cpc = "freed" /\ teardowns = 1
  /\ mutated /\ observed # NoValue

(* C8: creating a shared read guard, and releasing one that was never      *)
(* dereferenced, change neither reader_count nor the protection and issue  *)
(* no protection call, whatever the other guards are doing.                *)
C8_LazyActivation ==
  [][\A g \in Guards :
       (\/ rpc[g] = "none" /\ rpc'[g] = "idle"
        \/ /\ rpc[g] = "idle" /\ ~changed_permissions[g]
           /\ rpc'[g] \in {"none", "drop_prot"})
       => /\ deref_counter' = deref_counter
          /\ prot' = prot
          /\ syscall' = "none"
          /\ rpc'[g] \in {"idle", "none"}]_vars

C8_Witness ==
  \E g, h \in Guards :
    /\ rpc[g] = "idle" /\ ~changed_permissions[g]
    /\ Registered(h) /\ prot = PROT_READ /\ deref_counter = 1

(* C9: as long as no exclusive guard has been dereferenced mutably, every  *)
(* read through a shared read guard yields v after new(v) and the all-zero *)
(* value after new_zeroed().                                               *)
C9_ReadsInitialValue ==
  (~mutated /\ observed # NoValue) => observed = InitialValue

C9_Witness ==
  /\ ~mutated /\ Constructed
  /\ ctor[1] = "new" /\ ctor[2] # ZeroValue
  /\ observed = ctor[2]
  /\ \E g \in Guards : rpc[g] = "deref_ref"

(* C10: in a sequential alternation of guard lifetimes, releasing the      *)
(* exclusive guard leaves the storage Inaccessible with reader_count = 0,  *)
(* and the next shared read guard's first dereference observes count 0,    *)
(* calls make_readable and reads Readable storage.                         *)
C10_NoResidualState ==
  /\ [][(mut_holder # "none" /\ mut_holder' = "none")
          => (prot' = PROT_NONE /\ deref_counter' = 0)]_vars
  /\ [][\A g \in Guards :
          (Alone(g) /\ rpc[g] = "deref_add")
          => (deref_counter = 0 /\ rpc'[g] \in {"deref_add", "deref_prot"})]_vars
  /\ [](\A g \in Guards :
          (Alone(g) /\ rpc[g] = "deref_ref")
          => (prot = PROT_READ /\ deref_counter = 1))

C10_Witness ==
  \E g \in Guards :
    /\ Alone(g) /\ rpc[g] = "deref_ref"
    /\ mutated /\ observed # NoValue /\ observed # value(mem)
    /\ prot = PROT_READ /\ deref_counter = 1

(* C15: reader_count equals the number of shared read guards that have   *)
(* incremented it and not yet decremented it; it never goes below zero,    *)
(* and a guard that never registered never decrements it.                  *)
C15_CounterCountsRegistered ==
  /\ deref_counter = Cardinality({g \in Guards : Registered(g)})
  /\ deref_counter >= 0

C15_Witness ==
  /\ deref_counter = 2
  /\ \E g, h \in Guards :
       /\ g # h /\ Registered(g) /\ Registered(h)
       /\ rpc[g] = "idle" /\ rpc[h] = "deref_ref"

(* C16: a shared read guard increments reader_count on its first           *)
(* dereference only; make_readable is called only after an increment that  *)
(* observed 0; later dereferences of the same guard change neither the     *)
(* counter nor the protection.                                             *)
C16_RegistersOnce ==
  [][\A g \in Guards :
       /\ (rpc[g] = "idle" /\ changed_permissions[g]
             /\ rpc'[g] \in {"deref_add", "deref_prot", "deref_ref"})
          => /\ rpc'[g] = "deref_ref"
             /\ deref_counter' = deref_counter
             /\ prot' = prot
             /\ syscall' = "none"
       /\ (rpc[g] = "idle" /\ ~changed_permissions[g] /\ rpc'[g] # rpc[g]
             /\ rpc'[g] # "none")
          => (rpc'[g] = "deref_add" /\ changed_permissions'[g]
              /\ deref_counter' = deref_counter)
       /\ (rpc[g] = "deref_add" /\ rpc'[g] # "deref_add")
          => /\ deref_counter' = deref_counter + 1
             /\ rpc'[g] = (IF deref_counter = 0 THEN "deref_prot" ELSE "deref_ref")
             /\ syscall' = "none"
       /\ (rpc[g] = "deref_prot" /\ rpc'[g] # "deref_prot")
          => (syscall' = "make_readable" /\ prot' = PROT_READ)
       /\ (mut_holder = "none" /\ syscall' = "make_readable"
             /\ rpc'[g] # rpc[g])
          => rpc[g] = "deref_prot"]_vars

C16_Witness ==
  \E g \in Guards :
    /\ rpc[g] = "deref_ref" /\ changed_permissions[g]
    /\ observed # NoValue /\ syscall = "none"
    /\ deref_counter = 1 /\ Alone(g)

C20_LaterReadsSeeReadable ==
  \A g \in Guards : rpc[g] = "deref_ref" => Readable(prot)

\* The most recent Self::layout() returned Err
LayoutFailed == layout_call.called /\ "err" \in DOMAIN layout_call.out

(* C13: when the layout cannot be computed (alignment not a power of two,  *)
(* or size overflow), the constructor has returned Err(LayoutError),       *)
(* nothing has panicked, and no allocation, memory lock, protection call,  *)
(* write, zeroization or teardown has been performed.                      *)
C13_LayoutErrorBeforeAnything ==
  LayoutFailed =>
    /\ cpc = "returned" /\ outcome = "Err(LayoutError)" /\ panic = "none"
    /\ ctor_log = <<>> /\ drop_log = <<>>
    /\ mem = <<>> /\ prot = "Unmapped" /\ ~locked
    /\ syscall = "none" /\ teardowns = 0 /\ ~fault

C13_Witness ==
  /\ LayoutFailed /\ cpc = "returned"
  /\ ~IsPowerOfTwo(layout_call.page) /\ ctor[1] = "new"

\* An OS call of the constructor failed: the allocation, the memory lock or
\* the initial transition to Inaccessible
ConstructionFailed ==
  Range(ctor_log) \cap {"alloc_null", "mlock_failed", "make_inaccessible_failed"} # {}

(* C11: a constructor in which the allocation, the memory lock or the      *)
(* initial transition to Inaccessible failed returns Err to its caller; it *)
(* neither panics or aborts nor returns Ok.                                *)
C11_ConstructionFailuresAreErr ==
  (ConstructionFailed /\ cpc = "returned") => outcome = "Err(IoError)"

(* C12: once a protection transition triggered by a guard has failed, the  *)
(* process is over: no step taken afterwards changes reader_count, the     *)
(* protection or the content of the storage, or reads or writes it.        *)
C12_TransitionFailureIsFatal ==
  [][panic # "none" =>
       /\ deref_counter' = deref_counter
       /\ prot' = prot /\ mem' = mem
       /\ observed' = observed /\ mutated' = mutated
       /\ teardowns' = teardowns]_vars

\* A constructor has put a value into the storage
Initialised == Range(ctor_log) \cap {"write", "zeroize_inner"} # {}

(* C19: the wrapped type's teardown has only run on storage into which a   *)
(* constructor wrote a value or zeros; in particular a constructor whose   *)
(* memory lock failed has torn nothing down.                               *)
C19_TeardownOnlyOfInitialised ==
  teardowns > 0 => Initialised

\* The primitive the constructor has just executed
Executed(p) == ctor_log' # ctor_log /\ ctor_log'[Len(ctor_log')] = p

\* The primitive with which the constructor in progress writes the content
Writer == IF ctor[1] = "new" THEN "write" ELSE "zeroize_inner"

(* C18: a constructor executes allocate, memory-lock, write of the content *)
(* (the value, or zeros) and make-inaccessible in this order: the content  *)
(* is written only into a locked region, and at the step at which a        *)
(* constructor returns Ok the region is locked, holds the content, is      *)
(* Inaccessible and has reader_count 0.                                    *)
C18_ConstructionOrder ==
  [][/\ Executed("mlock") => ctor_log = <<"alloc">>
     /\ (Executed("write") \/ Executed("zeroize_inner")) =>
           /\ locked /\ ctor_log = <<"alloc", "mlock">>
           /\ Executed(Writer)
     /\ Executed("make_inaccessible") =>
           ctor_log = <<"alloc", "mlock", Writer>>
     /\ (outcome = "none" /\ outcome' = "Ok") =>
           /\ Executed("make_inaccessible")
           /\ locked' /\ value(mem') = InitialValue
           /\ prot' = PROT_NONE /\ deref_counter' = 0]_vars

C18_Witness ==
  /\ outcome = "Ok" /\ cpc = "live" /\ NoGuards /\ ctor[1] = "new"
  /\ ctor_log = <<"alloc", "mlock", "write", "make_inaccessible">>
  /\ locked /\ prot = PROT_NONE

\* Self::layout() returned Ok with alignment max(align, page) and with the
\* least multiple of that alignment that is >= size as its size
PaddedToAlignment ==
  LET out == layout_call.out IN
    /\ "err" \notin DOMAIN out
    /\ out.align = Max(layout_call.align, layout_call.page)
    /\ out.size % out.align = 0
    /\ out.size >= layout_call.size
    /\ out.size - out.align < layout_call.size

\* T fits in one page
FitsInPage ==
  layout_call.size <= layout_call.page /\ layout_call.align <= layout_call.page

(* C14, as claimed: for every size, power-of-two alignment and power-of-two *)
(* page size the layout has alignment max(align, page) and the least        *)
(* multiple of it that is >= size as its size, and for every T that fits in *)
(* one page the layout's size equals its alignment.                         *)
C14_Original ==
  layout_call.called =>
    /\ PaddedToAlignment
    /\ FitsInPage => layout_call.out.size = layout_call.out.align

(* C14, amended: the layout has alignment max(align, page) and the least    *)
(* multiple of it that is >= size as its size; for every T of non-zero size *)
(* that fits in one page the size equals the alignment, and for a           *)
(* zero-sized T the size is 0.                                              *)
C14_PaddedLayout ==
  layout_call.called =>
    /\ PaddedToAlignment
    /\ (FitsInPage /\ layout_call.size >= 1) =>
          layout_call.out.size = layout_call.out.align
    /\ layout_call.size = 0 => layout_call.out.size = 0

C14_Witness ==
  /\ layout_call.called /\ FitsInPage
  /\ layout_call.size = 1 /\ layout_call.page = 4
  /\ layout_call.out = [size |-> 4, align |-> 4]

====
